---------------------------- MODULE Spec2Model ----------------------------
(***************************************************************************)
(* Model of the census ETL pipeline: the SQLite loader of                  *)
(* sql_database.py (insert_tables_to_database) and the normalizer and      *)
(* merger of census_data.py.                                               *)
(*                                                                         *)
(* Text is a sequence of one-character strings, so that substring tests,   *)
(* splitting, stripping, concatenation and the text-to-integer conversion  *)
(* of an INTEGER PRIMARY KEY column are computed and not assumed.          *)
(***************************************************************************)
EXTENDS Integers, Sequences, FiniteSets, TLC

VARIABLES
    \* ---- loader (sql_database.py)
    files,        \* the files os.walk discovers, in walk order
    run,          \* how many times insert_tables_to_database was started
    pc,           \* "idle" | "walk" | "rows" | "done" | "aborted" ("off": loader not run)
    fi,           \* index of the file the walk is at
    ri,           \* number of the next data row of the open file
    disk,         \* the committed content of climate_database.db
    view,         \* the content the open connection sees (with its pending writes)
    inTxn,        \* the connection has an open implicit transaction
    handles,      \* indexes of the csv files whose handle is open
    connOpen,     \* the connection was opened and close() was not called
    printed,      \* what the run printed
    sql,          \* the last table_creation_sql executed
    lastOutcome,  \* what the step just taken did with its INSERT, or "none"
    first,        \* the database as the first load left it, and whether that load committed
    base,         \* the database when the current run connected
    \* ---- normalizer (census_data.py)
    npc,          \* "fetched" | "renamed" | "compiled" | "keyed" | "split" | "done" | "error" | "off"
    responses,    \* the JSON bodies the API returned, one per state
    frames,       \* the per-state dataframes
    frame,        \* the compiled dataframe
    \* ---- merger (census_data.py)
    mpc,          \* "clean" | "merged1" | "merged2" | "written" | "off"
    dp, dhc, cre, \* the three cleaned dataframes
    merged,       \* merge_dp_and_dhc, then merged_census_data
    csvOut        \* output_data/census_data.csv

loaderVars == <<files, run, pc, fi, ri, disk, view, inTxn, handles, connOpen,
                printed, sql, lastOutcome, first, base>>
normVars == <<npc, responses, frames, frame>>
mergeVars == <<mpc, dp, dhc, cre, merged, csvOut>>
vars == <<loaderVars, normVars, mergeVars>>

\* None of Python; SQL NULL; a missing value of a dataframe.
None == <<"<None>">>

-----------------------------------------------------------------------------
(* Text helpers *)

UpperLetters == <<"A", "B", "C", "D", "E", "F", "G", "H", "I", "J", "K", "L", "M", "N", "O", "P", "Q", "R", "S", "T", "U", "V", "W", "X", "Y", "Z">>
LowerLetters == <<"a", "b", "c", "d", "e", "f", "g", "h", "i", "j", "k", "l", "m", "n", "o", "p", "q", "r", "s", "t", "u", "v", "w", "x", "y", "z">>
Digits == <<"0", "1", "2", "3", "4", "5", "6", "7", "8", "9">>

\* str.lower() on one character
LowerChar(c) ==
    IF \E i \in 1..Len(UpperLetters) : UpperLetters[i] = c
    THEN LowerLetters[CHOOSE i \in 1..Len(UpperLetters) : UpperLetters[i] = c]
    ELSE c

\* str.lower()
Lower(s) == [i \in 1..Len(s) |-> LowerChar(s[i])]

\* Python's  needle in hay  on text: the empty needle is in every text
Contains(hay, needle) ==
    \E i \in 0..(Len(hay) - Len(needle)) : SubSeq(hay, i + 1, i + Len(needle)) = needle

IsDigit(c) == \E i \in 1..Len(Digits) : Digits[i] = c

DigitValue(c) == (CHOOSE i \in 1..Len(Digits) : Digits[i] = c) - 1

\* The text is an integer literal (digits only, at least one)
IsIntegerText(s) == Len(s) > 0 /\ \A i \in 1..Len(s) : IsDigit(s[i])

RECURSIVE ToInteger(_)
\* The integer an integer literal denotes: leading zeros do not matter
ToInteger(s) ==
    IF s = <<>> THEN 0
    ELSE 10 * ToInteger(SubSeq(s, 1, Len(s) - 1)) + DigitValue(s[Len(s)])


-----------------------------------------------------------------------------
(* Loader: sql_database.py *)

\* How many files the output directory holds, and how often the loader is run.
MaxFiles == 2
MaxRuns == 2

\* A file of the directory: its name split as os.path.splitext splits it, and
\* its lines as csv.reader yields them (the first line is the header row).
\* A zero-byte file has no line at all.
File(stem, ext, lines) == [stem |-> stem, ext |-> ext, lines |-> lines]

\* Files the directory may hold.  Keys are integer literals or text SQLite
\* cannot read as an integer; header names need no escaping inside quotes.
FileCatalogue ==
    { File("census_data", ".csv",
           << <<<<"g", "e", "o", "_", "i", "d">>, <<"s", "t", "a", "t", "e">>, <<"w", "h", "i", "t", "e", " ", "p", "o", "p", "u", "l", "a", "t", "i", "o", "n">>>>,
              <<<<"1", "7">>, <<"I", "L">>, <<"5">>>>,
              <<<<"0", "1", "7">>, <<"I", "L">>, <<"6">>>>,
              <<<<"1", "8">>, <<"I", "L">>, <<"7">>>> >>),
      File("census_update", ".csv",
           << <<<<"G", "E", "O", "_", "I", "D">>, <<"a", ".", "b">>>>,
              <<<<"x">>, <<"1">>>>,
              <<<<>>, <<"2">>>>,
              <<<<"3">>, <<"3">>>> >>),
      File("tract_names", ".csv",
           << <<<<"N", "A", "M", "E">>, <<"p", "o", "p">>>>,
              <<<<"a">>, <<"1">>>> >>),
      File("swapped", ".csv",
           << <<<<"n", "a", "m", "e">>, <<"T", "r", "a", "c", "t", "_", "G", "e", "o", "_", "I", "d">>>>,
              <<<<"5">>, <<"1", "7">>>>,
              <<<<"x">>, <<"1", "8">>>> >>),
      File("ragged", ".csv",
           << <<<<"g", "e", "o", "_", "i", "d">>, <<"p", "o", "p">>>>,
              <<<<"1">>, <<"2">>>>,
              <<<<"2">>, <<"3">>, <<"4">>>>,
              <<<<"3">>, <<"4">>>> >>),
      File("keys", ".csv",
           << <<<<"g", "e", "o", "_", "i", "d">>>>,
              <<<<"1">>>> >>),
      File("empty", ".csv", << >>),
      File("notes", ".txt",
           << <<<<"g", "e", "o", "_", "i", "d">>, <<"p", "o", "p">>>>,
              <<<<"1">>, <<"2">>>> >>) }

\* The directory listings os.walk may produce: up to MaxFiles different files.
Listings ==
    { l \in UNION { [1..n -> FileCatalogue] : n \in 1..MaxFiles } :
        \A i, j \in 1..Len(l) : i # j => l[i] # l[j] }

\* file.endswith(".csv")
IsCsv(f) == f.ext = ".csv"

\* os.path.splitext(file)[0]
TableName(f) == f.stem

RECURSIVE FirstGeoId(_, _)
\* The loop over the headers: the first header whose lower-case form holds "geo_id"
FirstGeoId(headers, i) ==
    IF i > Len(headers) THEN None
    ELSE IF Contains(Lower(headers[i]), <<"g", "e", "o", "_", "i", "d">>) THEN headers[i]
    ELSE FirstGeoId(headers, i + 1)

\* Variant: the search starts from the first header instead of None
PrimaryKeyColumnOrFirst(headers) ==
    IF FirstGeoId(headers, 1) = None THEN headers[1] ELSE FirstGeoId(headers, 1)

\* primary_key_column after the loop
PrimaryKeyColumn(headers) == FirstGeoId(headers, 1)

\* The needles of the quoting test, as the list of the source holds them
QuoteNeedles == << <<" ">>, <<",">>, <<"&">>, <<".">>, <<>>, <<",">> >>

\* any(c in column for c in [...])
NeedsQuotes(column) == \E k \in 1..Len(QuoteNeedles) : Contains(column, QuoteNeedles[k])

\* One declared column of the statement: its name, and whether it is written in quotes
ColumnDecl(column) == [name |-> column, quoted |-> NeedsQuotes(column)]

\* remaining_columns: every header that differs from the primary key, in header order
RemainingColumns(headers) ==
    LET keep == SelectSeq(headers, LAMBDA h : h # PrimaryKeyColumn(headers))
    IN  [i \in 1..Len(keep) |-> ColumnDecl(keep[i])]

\* table_creation_sql, as its parts
TableCreationSql(f) ==
    [table |-> TableName(f),
     pk |-> PrimaryKeyColumn(f.lines[1]),
     remaining |-> RemainingColumns(f.lines[1])]

\* The names of the columns a statement declares, in order
DeclaredNames(stmt) ==
    <<stmt.pk>> \o [i \in 1..Len(stmt.remaining) |-> stmt.remaining[i].name]

\* SQLite refuses the statement (OperationalError): nothing follows the comma
\* after the primary key, or two columns have the same name (names compare
\* without regard to case)
CreateFails(stmt) ==
    \/ stmt.remaining = << >>
    \/ LET names == DeclaredNames(stmt)
       IN  \E i, j \in 1..Len(names) : i # j /\ Lower(names[i]) = Lower(names[j])

\* CREATE TABLE IF NOT EXISTS on a database
CreateTable(db, stmt) ==
    IF stmt.table \in DOMAIN db THEN db
    ELSE [t \in DOMAIN db \cup {stmt.table} |->
            IF t = stmt.table
            THEN [pk |-> stmt.pk, cols |-> DeclaredNames(stmt), rows |-> << >>]
            ELSE db[t]]


\* A database without tables
EmptyDb == [t \in {} |-> {}]

\* Variant: the key column is declared without PRIMARY KEY, so no key is taken
InsertOutcomeNoPrimaryKey(table, row) ==
    IF Len(row) # Len(table.cols) THEN "arity"
    ELSE IF ~IsIntegerText(row[1]) THEN "mismatch"
    ELSE "ok"

\* What executing  INSERT INTO table VALUES (?, ..., ?)  with the row does.  The
\* values are bound to the table's columns in the order the table declares
\* them, so the first value is the primary key.
\*   "arity"    the statement does not compile: sqlite3.OperationalError
\*   "mismatch" the key is no integer: "datatype mismatch", sqlite3.IntegrityError
\*   "unique"   the key is taken: "UNIQUE constraint failed", sqlite3.IntegrityError
\*   "ok"       the row is stored
InsertOutcome(table, row) ==
    IF Len(row) # Len(table.cols) THEN "arity"
    ELSE IF ~IsIntegerText(row[1]) THEN "mismatch"
    ELSE IF \E k \in 1..Len(table.rows) : table.rows[k].key = ToInteger(row[1])
         THEN "unique"
    ELSE "ok"

\* Variant: only the uniqueness violation is caught
CaughtUniqueOnly(outcome) == outcome = "unique"

\* The outcomes  except sqlite3.IntegrityError  catches
Caught(outcome) == outcome \in {"mismatch", "unique"}

\* The database with the row stored in the table (the key as the integer it
\* denotes, the other values as bound), rows in the order they were stored
StoreRow(db, t, row) ==
    [db EXCEPT ![t].rows = Append(@, [key |-> ToInteger(row[1]), rest |-> Tail(row)])]

\* Variant: the run commits on its way out
AfterAbortCommitting(committed, pending) == pending

\* What the database file holds once a run ended without commit(): the
\* pending transaction is lost with the connection
AfterAbort(committed, pending) == committed

\* The file the walk is at, its header row and its data rows
CurrentFile == files[fi]
Headers == CurrentFile.lines[1]
DataRows == Tail(CurrentFile.lines)

LoaderInit ==
    /\ files \in Listings
    /\ run = 0
    /\ pc = "idle"
    /\ fi = 0
    /\ ri = 0
    /\ disk = EmptyDb
    /\ view = EmptyDb
    /\ inTxn = FALSE
    /\ handles = {}
    /\ connOpen = FALSE
    /\ printed = << >>
    /\ sql = [table |-> "", pk |-> None, remaining |-> << >>]
    /\ lastOutcome = "none"
    /\ first = [db |-> EmptyDb, completed |-> FALSE]
    /\ base = EmptyDb

\* insert_tables_to_database is called: sqlite3.connect and the cursor
Connect ==
    /\ pc \in {"idle", "done", "aborted"}
    /\ run < MaxRuns
    /\ run' = run + 1
    /\ pc' = "walk"
    /\ fi' = 1
    /\ ri' = 0
    /\ view' = disk
    /\ base' = disk
    /\ first' = IF run = 1 THEN [db |-> disk, completed |-> pc = "done"] ELSE first
    /\ inTxn' = FALSE
    /\ connOpen' = TRUE
    /\ handles' = {}
    /\ printed' = << >>
    /\ lastOutcome' = "none"
    /\ UNCHANGED <<files, disk, sql>>

\* One turn of the loop over the files, up to the loop over the rows: the
\* extension test, open(), the header row, the search for the primary key,
\* CREATE TABLE
OpenFile ==
    /\ pc = "walk"
    /\ fi <= Len(files)
    /\ lastOutcome' = "none"
    /\ UNCHANGED <<files, run, connOpen, first, base>>
    /\ IF ~IsCsv(CurrentFile)
       THEN /\ fi' = fi + 1
            /\ UNCHANGED <<pc, ri, disk, view, inTxn, handles, printed, sql>>
       ELSE IF CurrentFile.lines = << >>
       THEN \* next(csv_reader) raises StopIteration; the with block closes the file
            /\ pc' = "aborted"
            /\ disk' = AfterAbort(disk, view)
            /\ UNCHANGED <<fi, ri, view, inTxn, handles, printed, sql>>
       ELSE IF PrimaryKeyColumn(Headers) = None
       THEN \* the message and continue; the with block closes the file
            /\ printed' = Append(printed, <<"Skipping file", CurrentFile.stem>>)
            /\ fi' = fi + 1
            /\ UNCHANGED <<pc, ri, disk, view, inTxn, handles, sql>>
       ELSE LET stmt == TableCreationSql(CurrentFile)
            IN  /\ sql' = stmt
                /\ IF CreateFails(stmt)
                   THEN /\ pc' = "aborted"
                        /\ disk' = AfterAbort(disk, view)
                        /\ UNCHANGED <<fi, ri, view, inTxn, handles, printed>>
                   ELSE \* data definition opens no transaction: outside one
                        \* it is committed at once
                        /\ view' = CreateTable(view, stmt)
                        /\ disk' = IF inTxn THEN disk ELSE CreateTable(disk, stmt)
                        /\ handles' = handles \cup {fi}
                        /\ pc' = "rows"
                        /\ ri' = 1
                        /\ UNCHANGED <<fi, inTxn, printed>>

\* One turn of the loop over the rows: the INSERT and its except clause
InsertRow ==
    /\ pc = "rows"
    /\ ri <= Len(DataRows)
    /\ LET t == TableName(CurrentFile)
           row == DataRows[ri]
           outcome == InsertOutcome(view[t], row)
       IN  /\ lastOutcome' = outcome
           /\ IF outcome = "ok"
              THEN /\ view' = StoreRow(view, t, row)
                   /\ inTxn' = TRUE
                   /\ ri' = ri + 1
                   /\ UNCHANGED <<pc, handles, disk>>
              ELSE IF Caught(outcome)
              THEN /\ inTxn' = TRUE
                   /\ ri' = ri + 1
                   /\ UNCHANGED <<pc, handles, view, disk>>
              ELSE \* the error leaves the with block, which closes the file,
                   \* and the function; connection.close() is not reached
                   /\ pc' = "aborted"
                   /\ handles' = handles \ {fi}
                   /\ disk' = AfterAbort(disk, view)
                   /\ UNCHANGED <<ri, view, inTxn>>
    /\ UNCHANGED <<files, run, fi, connOpen, printed, sql, first, base>>

\* The rows are exhausted: the with block closes the file
CloseFile ==
    /\ pc = "rows"
    /\ ri > Len(DataRows)
    /\ handles' = handles \ {fi}
    /\ fi' = fi + 1
    /\ pc' = "walk"
    /\ lastOutcome' = "none"
    /\ UNCHANGED <<files, run, ri, disk, view, inTxn, connOpen, printed, sql, first, base>>

\* After the walk: the message, commit() and close()
Finish ==
    /\ pc = "walk"
    /\ fi > Len(files)
    /\ printed' = Append(printed, <<"Database created successfully and Tables added">>)
    /\ disk' = view
    /\ inTxn' = FALSE
    /\ connOpen' = FALSE
    /\ pc' = "done"
    /\ lastOutcome' = "none"
    /\ UNCHANGED <<files, run, fi, ri, view, handles, sql, first, base>>


-----------------------------------------------------------------------------
(* Normalizer: census_data.py, the population distribution dataset *)

\* How many states are fetched (a prefix of STATE_CODE_DICTIONARY), and how
\* many tracts a response may hold.  Every state has at least one tract.
NumStates == 1
MaxTracts == 2

DESIRED_COLUMNS == <<"geo_id", "state", "State_Name", "county", "County_Name", "tract">>

\* The header row of a response
ResponseHeader == <<"NAME", "state", "county", "tract", "DP1_0078C">>

\* Data rows a response may hold: a well-formed tract, one with padded names
\* and a null tract code, one whose name has two parts (its first semicolon
\* lacks the blank), one whose name has four
TractCatalogue ==
    { <<<<"T", "r", "a", "c", "t", " ", "1", ";", " ", "C", "o", "u", "n", "t", "y", " ", "X", ";", " ", "S", "t", "a", "t", "e", " ", "Y">>, <<"0", "6">>, <<"0", "0", "1">>, <<"0", "0", "0", "1", "0", "0">>, <<"5", "2", "3">>>>,
      <<<<"T", "r", "a", "c", "t", " ", "2", ";", " ", "C", "o", "u", "n", "t", "y", " ", "Z", " ", ";", " ", " ", "S", "t", "a", "t", "e", " ", "Y">>, <<"1", "7">>, <<"0", "3", "1">>, None, <<"1", "2">>>>,
      <<<<"T", "r", "a", "c", "t", " ", "3", ";", "C", "o", "u", "n", "t", "y", " ", "X", ";", " ", "S", "t", "a", "t", "e", " ", "Y">>, <<"0", "6">>, <<"0", "0", "1">>, <<"0", "0", "0", "3", "0", "0">>, <<"7">>>>,
      <<<<"T", "r", "a", "c", "t", " ", "4", ";", " ", "A", ";", " ", "C", "o", "u", "n", "t", "y", " ", "X", ";", " ", "S", "t", "a", "t", "e", " ", "Y">>, <<"1", "7">>, <<"0", "3", "1">>, <<"0", "0", "0", "4", "0", "0">>, <<"9">>>> }

\* response.json(): the header row, then the data rows
Responses ==
    { <<ResponseHeader>> \o rows :
        rows \in UNION { [1..n -> TractCatalogue] : n \in 1..MaxTracts } }

\* A dataframe: its column labels in order, and its rows, each a mapping from
\* column label to value
Dataframe(columns, rows) == [columns |-> columns, rows |-> rows]

Range(seq) == { seq[i] : i \in 1..Len(seq) }

IndexOf(seq, x) == CHOOSE i \in 1..Len(seq) : seq[i] = x

\* load_dataframe
LoadDataframe(dataJson) ==
    LET columns == dataJson[1]
        rows == Tail(dataJson)
    IN  Dataframe(columns,
                  [k \in 1..Len(rows) |->
                     [c \in Range(columns) |-> rows[k][IndexOf(columns, c)]]])

\* dp_dictionary.get(old_name, old_name)
DpDictionary(oldName) ==
    CASE oldName = "DP1_0078C" -> "white_population"
      [] oldName = "DP1_0079C" -> "black_african_american_population"
      [] oldName = "DP1_0080C" -> "american_indian_alaskan_native_population"
      [] oldName = "DP1_0081C" -> "asian_population"
      [] oldName = "DP1_0082C" -> "native_hawaiian_and_other_pacific_islander_population"
      [] oldName = "DP1_0083C" -> "Other_race_population"
      [] OTHER -> oldName

\* dataframe.rename(columns=column_mapping)
Rename(df) ==
    LET columns == [i \in 1..Len(df.columns) |-> DpDictionary(df.columns[i])]
    IN  Dataframe(columns,
                  [k \in 1..Len(df.rows) |->
                     [c \in Range(columns) |-> df.rows[k][df.columns[IndexOf(columns, c)]]]])

RECURSIVE ConcatRows(_, _)
ConcatRows(dfs, i) ==
    IF i > Len(dfs) THEN << >> ELSE dfs[i].rows \o ConcatRows(dfs, i + 1)

\* pd.concat(compiled, ignore_index=True) of frames with the same columns
Concat(dfs) == Dataframe(dfs[1].columns, ConcatRows(dfs, 1))

\* astype(str) on one value: text stays, a missing value becomes the text None
AsStr(v) == IF v = None THEN <<"N", "o", "n", "e">> ELSE v

\* Variant: the codes are joined with a dash
GeoIdDashed(state, county, tract) == state \o <<"-">> \o county \o <<"-">> \o tract

\* dataframe[state_column] + dataframe[county_column] + dataframe[tract_column]
GeoId(state, county, tract) == state \o county \o tract

\* The dataframe with a column set (added last when it is new)
WithColumn(df, c, values) ==
    Dataframe(IF c \in Range(df.columns) THEN df.columns ELSE Append(df.columns, c),
              [k \in 1..Len(df.rows) |->
                 [x \in Range(df.columns) \cup {c} |->
                    IF x = c THEN values[k] ELSE df.rows[k][x]]])

\* dataframe.drop(columns=...)
Drop(df, dropped) ==
    LET columns == SelectSeq(df.columns, LAMBDA c : c \notin dropped)
    IN  Dataframe(columns,
                  [k \in 1..Len(df.rows) |-> [c \in Range(columns) |-> df.rows[k][c]]])

\* add_geo_id
AddGeoId(df, stateColumn, countyColumn, tractColumn) ==
    LET s == WithColumn(df, stateColumn,
                        [k \in 1..Len(df.rows) |-> AsStr(df.rows[k][stateColumn])])
        c == WithColumn(s, countyColumn,
                        [k \in 1..Len(df.rows) |-> AsStr(s.rows[k][countyColumn])])
        t == WithColumn(c, tractColumn,
                        [k \in 1..Len(df.rows) |-> AsStr(c.rows[k][tractColumn])])
    IN  WithColumn(t, "geo_id",
                   [k \in 1..Len(df.rows) |->
                      GeoId(t.rows[k][stateColumn], t.rows[k][countyColumn],
                            t.rows[k][tractColumn])])

\* The separator of the NAME column
NameSeparator == <<";", " ">>

\* Where the separator first starts in the text, 0 when it does not occur
FindSeparator(s, sep) ==
    IF Contains(s, sep)
    THEN CHOOSE i \in 1..Len(s) :
            /\ SubSeq(s, i, i + Len(sep) - 1) = sep
            /\ \A j \in 1..(i - 1) : SubSeq(s, j, j + Len(sep) - 1) # sep
    ELSE 0

RECURSIVE Split(_, _)
\* str.split(sep)
Split(s, sep) ==
    IF FindSeparator(s, sep) = 0 THEN <<s>>
    ELSE <<SubSeq(s, 1, FindSeparator(s, sep) - 1)>>
         \o Split(SubSeq(s, FindSeparator(s, sep) + Len(sep), Len(s)), sep)

RECURSIVE MaxLen(_, _)
MaxLen(seqs, i) ==
    IF i > Len(seqs) THEN 0
    ELSE IF Len(seqs[i]) > MaxLen(seqs, i + 1) THEN Len(seqs[i]) ELSE MaxLen(seqs, i + 1)

\* Series.str.split(sep, expand=True): as many columns as the longest split,
\* the shorter ones filled with missing values
SplitExpand(values, sep) ==
    LET parts == [k \in 1..Len(values) |-> Split(values[k], sep)]
        width == MaxLen(parts, 1)
    IN  [k \in 1..Len(values) |->
           [j \in 1..width |-> IF j <= Len(parts[k]) THEN parts[k][j] ELSE None]]

\* Variant: the names are kept as split
StripNothing(v) == v

RECURSIVE Strip(_)
\* str.strip() on a value of a text column: blanks go from both ends, a
\* missing value stays missing
Strip(v) ==
    IF v = None \/ v = << >> THEN v
    ELSE IF v[1] = " " THEN Strip(Tail(v))
    ELSE IF v[Len(v)] = " " THEN Strip(SubSeq(v, 1, Len(v) - 1))
    ELSE v

\* The assignment of a frame to three column labels raises ValueError unless
\* the frame has three columns
SplitFits(expanded) == Len(expanded[1]) = 3

\* preprocess_name_column, when the assignment does not raise
PreprocessNameColumn(df) ==
    LET expanded == SplitExpand([k \in 1..Len(df.rows) |-> df.rows[k]["NAME"]],
                                NameSeparator)
        a == WithColumn(df, "Census_Tract", [k \in 1..Len(df.rows) |-> expanded[k][1]])
        b == WithColumn(a, "County_Name", [k \in 1..Len(df.rows) |-> expanded[k][2]])
        c == WithColumn(b, "State_Name", [k \in 1..Len(df.rows) |-> expanded[k][3]])
        d == Drop(c, {"Census_Tract", "NAME"})
        e == WithColumn(d, "State_Name",
                        [k \in 1..Len(df.rows) |-> Strip(d.rows[k]["State_Name"])])
    IN  WithColumn(e, "County_Name",
                   [k \in 1..Len(df.rows) |-> Strip(e.rows[k]["County_Name"])])

\* new_order and the selection of the columns in that order
Reorder(df) ==
    LET remaining == SelectSeq(df.columns, LAMBDA c : c \notin Range(DESIRED_COLUMNS))
    IN  Dataframe(DESIRED_COLUMNS \o remaining, df.rows)

NormInit ==
    /\ npc = "fetched"
    /\ responses \in [1..NumStates -> Responses]
    /\ frames = [i \in 1..NumStates |-> LoadDataframe(responses[i])]
    /\ frame = << >>

\* The loop that renames the columns of every state's dataframe
RenameColumns ==
    /\ npc = "fetched"
    /\ frames' = [i \in 1..Len(frames) |-> Rename(frames[i])]
    /\ npc' = "renamed"
    /\ UNCHANGED <<responses, frame>>

\* compiled_dp and pd.concat
Compile ==
    /\ npc = "renamed"
    /\ frame' = Concat(frames)
    /\ npc' = "compiled"
    /\ UNCHANGED <<responses, frames>>

\* The call of add_geo_id
KeyFrame ==
    /\ npc = "compiled"
    /\ frame' = AddGeoId(frame, "state", "county", "tract")
    /\ npc' = "keyed"
    /\ UNCHANGED <<responses, frames>>

\* The call of preprocess_name_column
SplitNames ==
    /\ npc = "keyed"
    /\ IF SplitFits(SplitExpand([k \in 1..Len(frame.rows) |-> frame.rows[k]["NAME"]],
                                NameSeparator))
       THEN frame' = PreprocessNameColumn(frame) /\ npc' = "split"
       ELSE frame' = frame /\ npc' = "error"
    /\ UNCHANGED <<responses, frames>>

\* The reordering of the columns, and the return
ReorderColumns ==
    /\ npc = "split"
    /\ frame' = Reorder(frame)
    /\ npc' = "done"
    /\ UNCHANGED <<responses, frames>>

-----------------------------------------------------------------------------
(* Merger: census_data.py, process_census_data_to_csv *)

\* How many records a cleaned dataframe may hold (at least one).
MaxRecords == 1

\* The columns the dataframes are joined on
JoinColumns == <<"geo_id", "state", "State_Name", "county", "County_Name", "tract">>

\* In the merger text is atomic; NaN is the missing value of pandas
NaN == "NaN"

\* Identifier values cleaned records may carry.  The third names the tract of
\* the first under another county name, as another survey year may do.
Identifiers ==
    { <<"06001000100", "06", "California", "001", "Alameda County", "000100">>,
      <<"17031000200", "17", "Illinois", "031", "Cook County", "000200">>,
      <<"06001000100", "06", "California", "001", "Alameda", "000100">> }

\* The order of the texts that occur in identifiers
Collation ==
    <<"000100", "000200", "001", "031", "06", "06001000100", "17", "17031000200",
      "Alameda", "Alameda County", "California", "Cook County", "Illinois">>

TextBefore(a, b) == IndexOf(Collation, a) < IndexOf(Collation, b)

\* Lexicographic order of two keys
KeyBefore(a, b) ==
    \E i \in 1..Len(a) :
        /\ TextBefore(a[i], b[i])
        /\ \A j \in 1..(i - 1) : a[j] = b[j]

RECURSIVE SortKeys(_)
\* The keys in lexicographic order
SortKeys(keys) ==
    IF keys = {} THEN << >>
    ELSE LET least == CHOOSE k \in keys : \A other \in keys \ {k} : KeyBefore(k, other)
         IN  <<least>> \o SortKeys(keys \ {least})

\* A cleaned record: the identifier columns and the dataset's own columns
CleanRecord(identifier, column, value) ==
    [c \in Range(JoinColumns) \cup {column} |->
        IF c = column THEN value ELSE identifier[IndexOf(JoinColumns, c)]]

\* The dataframes a clean_..._data function may return, with one of the
\* dataset's own columns
CleanFrames(column, values) ==
    { Dataframe(JoinColumns \o <<column>>, rows) :
        rows \in UNION { [1..n -> { CleanRecord(i, column, v) :
                                      i \in Identifiers, v \in values }] :
                         n \in 1..MaxRecords } }

\* The values of a record in the join columns
KeyOf(record, on) == [i \in 1..Len(on) |-> record[on[i]]]

KeysOf(df, on) == { KeyOf(df.rows[k], on) : k \in 1..Len(df.rows) }

\* The records of the dataframe with the key, in their order
RecordsWithKey(df, on, key) == SelectSeq(df.rows, LAMBDA r : KeyOf(r, on) = key)

\* The columns of a dataframe that are not join columns
OwnColumns(df, on) == SelectSeq(df.columns, LAMBDA c : c \notin Range(on))

\* A record of the result: the values of both sides, NaN where a side is absent
Combined(columns, on, key, l, r) ==
    [c \in Range(columns) |->
        IF c \in Range(on) THEN key[IndexOf(on, c)]
        ELSE IF c \in DOMAIN l THEN l[c]
        ELSE IF c \in DOMAIN r THEN r[c]
        ELSE NaN]

\* No record at all
Absent == [c \in {} |-> NaN]

\* The records of the result for one key: every pairing of the left and the
\* right records with the key, or the records of the one side that has it
RecordsForKey(left, right, on, columns, key) ==
    LET ls == RecordsWithKey(left, on, key)
        rs == RecordsWithKey(right, on, key)
    IN  IF rs = << >>
        THEN [i \in 1..Len(ls) |-> Combined(columns, on, key, ls[i], Absent)]
        ELSE IF ls = << >>
        THEN [j \in 1..Len(rs) |-> Combined(columns, on, key, Absent, rs[j])]
        ELSE [n \in 1..(Len(ls) * Len(rs)) |->
                Combined(columns, on, key,
                         ls[((n - 1) \div Len(rs)) + 1], rs[((n - 1) % Len(rs)) + 1])]

RECURSIVE RecordsForKeys(_, _, _, _, _)
RecordsForKeys(left, right, on, columns, keys) ==
    IF keys = << >> THEN << >>
    ELSE RecordsForKey(left, right, on, columns, keys[1])
         \o RecordsForKeys(left, right, on, columns, Tail(keys))

\* Variant: how="left"
LeftMerge(left, right, on) ==
    LET columns == left.columns \o OwnColumns(right, on)
    IN  Dataframe(columns,
                  RecordsForKeys(left, right, on, columns, SortKeys(KeysOf(left, on))))

\* pd.merge(left, right, on=on, how="outer") of frames whose own columns
\* differ: the keys of either side, in lexicographic order
OuterMerge(left, right, on) ==
    LET columns == left.columns \o OwnColumns(right, on)
    IN  Dataframe(columns,
                  RecordsForKeys(left, right, on, columns,
                                 SortKeys(KeysOf(left, on) \cup KeysOf(right, on))))

\* to_csv(index=False): the header row, then the records, a missing value as
\* the empty field
ToCsv(df) ==
    <<df.columns>> \o
    [k \in 1..Len(df.rows) |->
        [i \in 1..Len(df.columns) |->
            IF df.rows[k][df.columns[i]] = NaN THEN "" ELSE df.rows[k][df.columns[i]]]]

MergeInit ==
    /\ mpc = "clean"
    /\ dp \in CleanFrames("white_population", {"523", "7"})
    /\ dhc \in CleanFrames("owner_occuppied_white", {"40"})
    /\ cre \in CleanFrames("rate_of_individuals_with_zero_components_of_social_vulnerability", {"31.5"})
    /\ merged = << >>
    /\ csvOut = << >>

\* The first pd.merge
MergeDpAndDhc ==
    /\ mpc = "clean"
    /\ merged' = OuterMerge(dp, dhc, JoinColumns)
    /\ mpc' = "merged1"
    /\ UNCHANGED <<dp, dhc, cre, csvOut>>

\* The second pd.merge
MergeCre ==
    /\ mpc = "merged1"
    /\ merged' = OuterMerge(merged, cre, JoinColumns)
    /\ mpc' = "merged2"
    /\ UNCHANGED <<dp, dhc, cre, csvOut>>

\* mkdir and to_csv: census_data.csv is written anew
ExportCsv ==
    /\ mpc = "merged2"
    /\ csvOut' = ToCsv(merged)
    /\ mpc' = "written"
    /\ UNCHANGED <<dp, dhc, cre, merged>>
NormIdle ==
    /\ npc = "off"
    /\ responses = << >>
    /\ frames = << >>
    /\ frame = << >>

MergeIdle ==
    /\ mpc = "off"
    /\ dp = << >>
    /\ dhc = << >>
    /\ cre = << >>
    /\ merged = << >>
    /\ csvOut = << >>

Init == LoaderInit /\ NormIdle /\ MergeIdle

Next ==
    \/ Connect /\ UNCHANGED <<normVars, mergeVars>>
    \/ OpenFile /\ UNCHANGED <<normVars, mergeVars>>
    \/ InsertRow /\ UNCHANGED <<normVars, mergeVars>>
    \/ CloseFile /\ UNCHANGED <<normVars, mergeVars>>
    \/ Finish /\ UNCHANGED <<normVars, mergeVars>>

Spec == Init /\ [][Next]_vars


LoaderIdle ==
    /\ files = << >>
    /\ run = 0
    /\ pc = "off"
    /\ fi = 0
    /\ ri = 0
    /\ disk = EmptyDb
    /\ view = EmptyDb
    /\ inTxn = FALSE
    /\ handles = {}
    /\ connOpen = FALSE
    /\ printed = << >>
    /\ sql = [table |-> "", pk |-> None, remaining |-> << >>]
    /\ lastOutcome = "none"
    /\ first = [db |-> EmptyDb, completed |-> FALSE]
    /\ base = EmptyDb

InitNormalize == LoaderIdle /\ NormInit /\ MergeIdle

NextNormalize ==
    \/ RenameColumns /\ UNCHANGED <<loaderVars, mergeVars>>
    \/ Compile /\ UNCHANGED <<loaderVars, mergeVars>>
    \/ KeyFrame /\ UNCHANGED <<loaderVars, mergeVars>>
    \/ SplitNames /\ UNCHANGED <<loaderVars, mergeVars>>
    \/ ReorderColumns /\ UNCHANGED <<loaderVars, mergeVars>>

SpecNormalize == InitNormalize /\ [][NextNormalize]_vars

InitMerge == LoaderIdle /\ NormIdle /\ MergeInit

NextMerge ==
    \/ MergeDpAndDhc /\ UNCHANGED <<loaderVars, normVars>>
    \/ MergeCre /\ UNCHANGED <<loaderVars, normVars>>
    \/ ExportCsv /\ UNCHANGED <<loaderVars, normVars>>

SpecMerge == InitMerge /\ [][NextMerge]_vars

-----------------------------------------------------------------------------
(* Properties of the loader *)

\* The conditions of a row, stated on the file and the table as they are
NoGeoIdHeader(headers) ==
    \A i \in 1..Len(headers) : ~Contains(Lower(headers[i]), <<"g", "e", "o", "_", "i", "d">>)
WrongArity(table, row) == Len(row) # Len(table.cols)
KeyTaken(table, row) ==
    /\ IsIntegerText(row[1])
    /\ \E k \in 1..Len(table.rows) : table.rows[k].key = ToInteger(row[1])
KeyNotInteger(row) == ~IsIntegerText(row[1])
AtRow == pc = "rows" /\ ri <= Len(DataRows)
RowCount(db, t) == IF t \in DOMAIN db THEN Len(db[t].rows) ELSE 0
\* The row the step just taken has bound
BoundRow == DataRows[ri - 1]

C2_SkipCase ==
    /\ pc = "walk"
    /\ fi <= Len(files)
    /\ IsCsv(CurrentFile)
    /\ CurrentFile.lines # << >>
    /\ NoGeoIdHeader(Headers)

C3_OnlyUniqueRecovered ==
    [][AtRow =>
        LET table == view[TableName(CurrentFile)]
            row == DataRows[ri]
        IN  /\ (~WrongArity(table, row) /\ KeyTaken(table, row))
                 => (pc' = "rows" /\ ri' = ri + 1 /\ view' = view)
            /\ (WrongArity(table, row) \/ KeyNotInteger(row))
                 => pc' = "aborted"]_vars

\* C3 amended: the loader recovers from both faults sqlite3 reports as
\* IntegrityError, a key that is taken and a key that is no integer: exactly
\* that row is dropped and the loop goes on with the next row; a row with too
\* few or too many values aborts the run; any other row is stored.
C3_IntegrityErrorsRecovered ==
    [][AtRow =>
        LET t == TableName(CurrentFile)
            table == view[t]
            row == DataRows[ri]
        IN  IF WrongArity(table, row)
            THEN pc' = "aborted" /\ view' = view
            ELSE IF KeyTaken(table, row) \/ KeyNotInteger(row)
            THEN pc' = "rows" /\ ri' = ri + 1 /\ view' = view /\ disk' = disk
            ELSE /\ pc' = "rows"
                 /\ ri' = ri + 1
                 /\ Len(view'[t].rows) = Len(table.rows) + 1]_vars

\* C3 witness: a row whose key is no integer was dropped and the loop goes on
C3_Witness ==
    /\ pc = "rows"
    /\ lastOutcome = "mismatch"
    /\ KeyNotInteger(BoundRow)
    /\ ri <= Len(DataRows)

\* C4 as stated: after an abort the database holds every table created and
\* every row stored before the error.
C4_NothingLostOnAbort == pc = "aborted" => disk = view

\* C4 amended: after an abort the database file holds no row the run stored:
\* every table has the rows it had when the run connected, the tables the run
\* added are empty and are among those it created, and nothing at all is lost
\* only when no INSERT had opened the transaction.
C4_AbortLosesPending ==
    pc = "aborted" =>
        /\ DOMAIN base \subseteq DOMAIN disk
        /\ DOMAIN disk \subseteq DOMAIN view
        /\ \A t \in DOMAIN disk :
              disk[t].rows = (IF t \in DOMAIN base THEN base[t].rows ELSE << >>)
        /\ ~inTxn => disk = view

\* C4 witness: an aborted run had stored a row that the database file lacks,
\* in a table that outlived the abort
C4_Witness ==
    /\ pc = "aborted"
    /\ \E t \in DOMAIN disk : Len(view[t].rows) > Len(disk[t].rows)

\* C5: wherever the loader leaves a file or the run, the csv handles it opened
\* and the connection it opened are closed.
C5_ReleasedOnEveryExit ==
    /\ pc \in {"walk", "done", "aborted"} => handles = {}
    /\ pc \in {"done", "aborted"} => ~connOpen

\* C9: a remaining column is declared in quotes exactly when its name holds a
\* space, a comma, an ampersand or a period.
HasQuotedCharacter(column) ==
    \E i \in 1..Len(column) : column[i] \in {" ", ",", "&", "."}

C9_QuotedOnlyWhenNeeded ==
    \A i \in 1..Len(sql.remaining) :
        sql.remaining[i].quoted <=> HasQuotedCharacter(sql.remaining[i].name)

\* C10: a stored row holds, under every header's column, the field the row has
\* under that header: the key column holds the integer of the field under the
\* geo_id header, every other column the field under its own header.
ColumnIndex(table, name) == CHOOSE k \in 1..Len(table.cols) : table.cols[k] = name
StoredUnder(table, stored, name) ==
    IF ColumnIndex(table, name) = 1
    THEN stored.key
    ELSE stored.rest[ColumnIndex(table, name) - 1]

C10_StoredUnderOwnHeader ==
    (pc = "rows" /\ lastOutcome = "ok") =>
        LET table == view[TableName(CurrentFile)]
            stored == table.rows[Len(table.rows)]
        IN  \A i \in 1..Len(Headers) :
              IF Headers[i] = table.pk
              THEN /\ IsIntegerText(BoundRow[i])
                   /\ StoredUnder(table, stored, Headers[i]) = ToInteger(BoundRow[i])
              ELSE StoredUnder(table, stored, Headers[i]) = BoundRow[i]

-----------------------------------------------------------------------------
(* Properties of the normalizer *)

RECURSIVE RawRowsFrom(_)
\* The data rows of the responses, in the order the states were fetched
RawRowsFrom(i) ==
    IF i > Len(responses) THEN << >> ELSE Tail(responses[i]) \o RawRowsFrom(i + 1)
RawRows == RawRowsFrom(1)
RawName(k) == RawRows[k][1]

\* The row of the end-to-end scenario
ExampleRow == <<<<"T", "r", "a", "c", "t", " ", "1", ";", " ", "C", "o", "u", "n", "t", "y", " ", "X", ";", " ", "S", "t", "a", "t", "e", " ", "Y">>, <<"0", "6">>, <<"0", "0", "1">>, <<"0", "0", "0", "1", "0", "0">>, <<"5", "2", "3">>>>

\* C6: in every normalized record geo_id is the state code, the county code
\* and the tract code joined in that order with nothing between them, the
\* codes as they were fetched (leading zeros kept), so its length is the sum
\* of theirs; the scenario's row gives geo_id 06001000100, State_Name State Y,
\* County_Name County X and white_population 523.
C6_GeoIdIsConcatenation ==
    npc \in {"keyed", "split", "done"} =>
        \A k \in 1..Len(frame.rows) :
            LET r == frame.rows[k]
            IN  /\ r["geo_id"] = r["state"] \o r["county"] \o r["tract"]
                /\ Len(r["geo_id"]) = Len(r["state"]) + Len(r["county"]) + Len(r["tract"])
                /\ RawRows[k][2] # None => r["state"] = RawRows[k][2]
                /\ RawRows[k][3] # None => r["county"] = RawRows[k][3]
                /\ RawRows[k][4] # None => r["tract"] = RawRows[k][4]
                /\ (npc = "done" /\ RawRows[k] = ExampleRow) =>
                      /\ r["geo_id"] = <<"0", "6", "0", "0", "1", "0", "0", "0", "1", "0", "0">>
                      /\ r["State_Name"] = <<"S", "t", "a", "t", "e", " ", "Y">>
                      /\ r["County_Name"] = <<"C", "o", "u", "n", "t", "y", " ", "X">>
                      /\ r["white_population"] = <<"5", "2", "3">>
                      /\ "DP1_0078C" \notin DOMAIN r

\* C6 witness: the scenario's row was normalized, next to a record whose
\* tract code was missing
C6_Witness ==
    /\ npc = "done"
    /\ \E k \in 1..Len(frame.rows) :
          RawRows[k] = ExampleRow /\ frame.rows[k]["geo_id"] = <<"0", "6", "0", "0", "1", "0", "0", "0", "1", "0", "0">>
    /\ \E k \in 1..Len(frame.rows) : RawRows[k][4] = None

\* How often the separator occurs in a name, and the largest number of parts
\* a name of the table has
SeparatorCount(s) ==
    Cardinality({ i \in 1..(Len(s) - 1) : SubSeq(s, i, i + 1) = <<";", " ">> })
WidestName ==
    CHOOSE n \in 1..20 :
        /\ \E k \in 1..Len(RawRows) : SeparatorCount(RawName(k)) + 1 = n
        /\ \A k \in 1..Len(RawRows) : SeparatorCount(RawName(k)) + 1 <= n

RECURSIVE Joined(_)
\* The parts with the separator between them
Joined(parts) ==
    IF Len(parts) = 1 THEN parts[1] ELSE parts[1] \o <<";", " ">> \o Joined(Tail(parts))

\* t is s without the blanks at its ends
IsTrimOf(t, s) ==
    /\ t = << >> \/ (t[1] # " " /\ t[Len(t)] # " ")
    /\ \E i, j \in 0..Len(s) :
          /\ s = [x \in 1..i |-> " "] \o t \o [x \in 1..j |-> " "]

\* The names of record k are the trimmed second and third part of its NAME,
\* or missing when the NAME has no such part
NamesFromParts(k) ==
    LET parts == Split(RawName(k), <<";", " ">>)
        r == frame.rows[k]
    IN  /\ Joined(parts) = RawName(k)
        /\ \A j \in 1..Len(parts) : ~Contains(parts[j], <<";", " ">>)
        /\ Len(parts) = SeparatorCount(RawName(k)) + 1
        /\ IF Len(parts) >= 2
           THEN IsTrimOf(r["County_Name"], parts[2])
           ELSE r["County_Name"] = None
        /\ IF Len(parts) >= 3
           THEN IsTrimOf(r["State_Name"], parts[3])
           ELSE r["State_Name"] = None
        /\ "NAME" \notin DOMAIN r
        /\ "Census_Tract" \notin DOMAIN r

\* C7 as stated: the normalization fails whenever some record's NAME has fewer
\* or more than two separators, and when every NAME has exactly two the second
\* part (trimmed) is County_Name and the third (trimmed) State_Name.
C7_StrictSplit ==
    /\ npc \in {"split", "done"} =>
          /\ \A k \in 1..Len(RawRows) : SeparatorCount(RawName(k)) = 2
          /\ \A k \in 1..Len(RawRows) : NamesFromParts(k)
    /\ npc = "error" => \E k \in 1..Len(RawRows) : SeparatorCount(RawName(k)) # 2

\* C7 amended: the normalization fails exactly when the largest number of
\* parts a NAME of the table splits into is not three; a record with fewer
\* parts does not make it fail, and its missing parts give missing names; in
\* every record the second part (trimmed) is County_Name and the third
\* (trimmed) State_Name.
C7_SplitByWidestName ==
    /\ npc \in {"split", "done"} =>
          /\ WidestName = 3
          /\ \A k \in 1..Len(RawRows) : NamesFromParts(k)
    /\ npc = "error" => WidestName # 3

\* C7 witness: a table with a two-part NAME was normalized; that record has no
\* State_Name, and another one had its names trimmed
C7_Witness ==
    /\ npc = "done"
    /\ \E k \in 1..Len(RawRows) :
          SeparatorCount(RawName(k)) = 1 /\ frame.rows[k]["State_Name"] = None
    /\ \E k \in 1..Len(RawRows) : frame.rows[k]["County_Name"] = <<"C", "o", "u", "n", "t", "y", " ", "Z">>

-----------------------------------------------------------------------------
(* Properties of the merger *)

\* The record occurs in the merged dataframe with all its values
Appears(record) ==
    \E m \in 1..Len(merged.rows) :
        \A c \in DOMAIN record : merged.rows[m][c] = record[c]

\* The identifier of the record occurs in the dataframe
HasKey(df, record) ==
    \E k \in 1..Len(df.rows) :
        \A i \in 1..Len(JoinColumns) : df.rows[k][JoinColumns[i]] = record[JoinColumns[i]]

\* Every merged record with the identifier of the record lacks the own
\* columns of the dataframe
LacksColumnsOf(df, record) ==
    \A m \in 1..Len(merged.rows) :
        (\A i \in 1..Len(JoinColumns) :
            merged.rows[m][JoinColumns[i]] = record[JoinColumns[i]])
        => \A c \in Range(df.columns) \ Range(JoinColumns) : merged.rows[m][c] = NaN

\* Both statements for the records of one dataframe against the two others
Preserved(df, other1, other2) ==
    \A k \in 1..Len(df.rows) :
        /\ Appears(df.rows[k])
        /\ ~HasKey(other1, df.rows[k]) => LacksColumnsOf(other1, df.rows[k])
        /\ ~HasKey(other2, df.rows[k]) => LacksColumnsOf(other2, df.rows[k])

\* C8: every record of each of the three cleaned dataframes appears in the
\* merged output with its values, and a record whose identifier (the six join
\* columns) occurs in one dataframe only appears with the columns of the other
\* two missing.
C8_OuterJoinKeepsEveryRecord ==
    mpc \in {"merged2", "written"} =>
        /\ Preserved(dp, dhc, cre)
        /\ Preserved(dhc, dp, cre)
        /\ Preserved(cre, dp, dhc)
        /\ mpc = "written" => Len(csvOut) = Len(merged.rows) + 1

\* C8 witness: the output holds a record of the third dataframe whose
\* identifier no other dataframe has, next to one that all three share
C8_Witness ==
    /\ mpc = "written"
    /\ \E k \in 1..Len(cre.rows) :
          /\ ~HasKey(dp, cre.rows[k])
          /\ ~HasKey(dhc, cre.rows[k])
          /\ \E m \in 1..Len(merged.rows) :
                /\ merged.rows[m]["geo_id"] = cre.rows[k]["geo_id"]
                /\ merged.rows[m]["County_Name"] = cre.rows[k]["County_Name"]
                /\ merged.rows[m]["white_population"] = NaN
                /\ merged.rows[m]["owner_occuppied_white"] = NaN
    /\ \E k \in 1..Len(dp.rows) : HasKey(dhc, dp.rows[k])
=============================================================================
